---- MODULE Spec2Model ----
(***************************************************************************)
(* A model of the control-and-sink core of openag_brain:                   *)
(*   - the PID node (software_modules/pid.py): class PID and the two ROS   *)
(*     callbacks bound to the "desired" and "state" topics;                *)
(*   - the image sink (software_modules/image_persistence.py):             *)
(*     ImagePersistence.on_image with its rate limit and two-phase write.  *)
(* Each node is one OS process of its own, so each has its own             *)
(* specification over the shared variable list: Spec (the PID node, one    *)
(* callback at a time), SpecDrive (the PID node driven with one constant   *)
(* measurement), SpecThreads (the PID node with its two callbacks in two   *)
(* threads, PID.update taken line by line), SpecImage (the image sink)     *)
(* and SpecScalar (the scalar sink, client/modules/Persistence.py).        *)
(*                                                                         *)
(* Numbers are integers.  The source computes with Python floats (ROS      *)
(* Float64 payloads); the model covers the values that are exactly         *)
(* representable and leaves rounding, infinities and NaN out.              *)
(*                                                                         *)
(* Python's None is the empty tuple << >> and a present value v is <<v>>.  *)
(***************************************************************************)
EXTENDS Integers, Sequences, FiniteSets

\* ------------------------------------------------------------------------
\* Bounds and input domains
\* ------------------------------------------------------------------------

\* The PID node stops taking state messages once it has published this many
\* cmd messages (the log of published messages is kept whole).
MaxPublished == 3

\* With its callbacks in two threads, the PID node stops taking state
\* messages once it has published this many cmd messages.
MaxThreadPublished == 2

\* The image sink takes this many frames.
MaxFrames == 3

\* The clock (time.time(), in seconds) runs from 0 to this.
MaxTime == 11

\* min_update_interval values of the image sink.
MinUpdateIntervals == {0, 3, 10}

\* Pixel encodings of inbound frames; "bgr8" is not in image_format_mapping.
Encodings == {"rgb8", "rgba8", "bgr8"}

\* The scalar sink is sent this many events.
MaxEvents == 3

\* item.value and item.timestamp of the events sent to the scalar sink.
ScalarValues == {3, 5}

ScalarTimestamps == {1, 2}

\* Set points delivered on the "desired" topic.
SetPoints == {3, 5}

\* Measurements delivered on the "state" topic.
Measurements == {3, 4, 5}

\* Values of the gain parameters Kp, Ki, Kd (0 is the default, pid.py:29).
Gains == {0, 1}

\* <<lower_limit, upper_limit>> pairs: the default <<-1, 1>> (pid.py:29),
\* a range that excludes zero, and a pair with lower_limit > upper_limit
\* (PID.__init__ stores whatever it is given).
Limits == {<<-1, 1>>, <<1, 2>>, <<1, -1>>}

\* windup_limit values; a negative one is stored unchecked as well.
WindupLimits == {0, 3, -1}

\* deadband_width values (0 is the default, pid.py:30).
DeadbandWidths == {0, 2, -1}

\* ------------------------------------------------------------------------
\* State
\* ------------------------------------------------------------------------

VARIABLES
    \* class PID, the configuration stored by __init__
    Kp, Ki, Kd, upper_limit, lower_limit, windup_limit, deadband_width,
    \* class PID, the running state
    set_point, last_error, integrator,
    \* the PID node: the message handed to the last callback, the value
    \* update returned to the last state_callback (<< >> before any, and when
    \* update returned None), and the messages published on the cmd topic,
    \* oldest first
    item, cmd, pub,
    \* SpecDrive only: << >>, or <<m>> once the state topic repeats m forever
    driving,
    \* SpecThreads only: the frame of the PID.update call the state topic's
    \* thread is in (its position pc, its argument and its locals), and what
    \* that call has met: its argument, self.set_point, self.last_error and
    \* self.integrator when it was entered, the set point its line 44 saw,
    \* and every value self.set_point has had since it was entered
    frame, call,
    \* class ImagePersistence
    min_update_interval, last_update,
    \* the image sink's surroundings: the last reading of time.time(); the
    \* documents of the data point database, in order of creation (a
    \* document's id is its index); the number of frames delivered, the
    \* time.time() reading on_image took for the last one (curr_time) and how
    \* its on_image call ended
    clock, db, nframes, curr_time, ended,
    \* the last frame's item.encoding; the requests the last on_image call
    \* sent to the database, in order; and, for each document of db, the
    \* arrival time (curr_time) of the frame that created it
    encoding, requests, persisted_at,
    \* the scalar sink (client/modules/Persistence.py): the events sent to
    \* its two inputs, in order, each with what became of it, and the
    \* documents of its database
    scalar_in, scalar_db

pidConfig == <<Kp, Ki, Kd, upper_limit, lower_limit, windup_limit, deadband_width>>
pidState == <<set_point, last_error, integrator>>
pidNode == <<item, cmd, pub>>
thrVars == <<frame, call>>
pidVars == <<pidConfig, pidState, pidNode, driving, thrVars>>

imgConfig == <<min_update_interval>>
imgVars == <<min_update_interval, last_update, clock, db, nframes, curr_time, ended,
             encoding, requests, persisted_at>>

scalarVars == <<scalar_in, scalar_db>>

vars == <<pidVars, imgVars, scalarVars>>

\* ------------------------------------------------------------------------
\* Python builtins
\* ------------------------------------------------------------------------

\* max(a, b) and min(a, b) of two numbers: the first argument unless the
\* second is strictly greater (smaller).
max(a, b) == IF b > a THEN b ELSE a

min(a, b) == IF b < a THEN b ELSE a

abs(x) == IF x < 0 THEN -x ELSE x

None == << >>

Some(v) == <<v>>

\* ------------------------------------------------------------------------
\* class PID
\* ------------------------------------------------------------------------

\* PID.__init__: the parameters are stored as given, with no validation.
PID_init ==
    /\ Kp \in Gains
    /\ Ki \in Gains
    /\ Kd \in Gains
    /\ \E l \in Limits : lower_limit = l[1] /\ upper_limit = l[2]
    /\ windup_limit \in WindupLimits
    /\ deadband_width \in DeadbandWidths
    /\ set_point = None
    /\ last_error = 0
    /\ integrator = 0

\* Variant of error: the operands are swapped.
error_swapped(state) == state - set_point[1]

\* The locals of PID.update(state), for a set point that is not None.
error(state) == set_point[1] - state

p_value(state) == Kp * error(state)

d_value(state) == Kd * (error(state) - last_error)

\* Variants of new_integrator: the increment is clamped instead of the sum;
\* the sum is not clamped at all.
new_integrator_clamped_increment(state) ==
    integrator + max(-windup_limit, min(windup_limit, error(state)))

new_integrator_unclamped(state) == integrator + error(state)

\* self.integrator after lines 52-53: accumulate, then clamp.
new_integrator(state) ==
    max(-windup_limit, min(windup_limit, integrator + error(state)))

i_value(state) == Ki * new_integrator(state)

\* Variants of res: the upper clamp is missing; the lower clamp is missing.
res_no_upper(state) ==
    max(lower_limit, p_value(state) + i_value(state) + d_value(state))

res_no_lower(state) ==
    min(upper_limit, p_value(state) + i_value(state) + d_value(state))

\* res after line 57.
res(state) ==
    min(upper_limit, max(lower_limit, p_value(state) + i_value(state) + d_value(state)))

\* Variant of deadband: the comparison is not strict.
deadband_not_strict(r) == IF abs(r) <= deadband_width THEN 0 ELSE r

\* The deadband of lines 59-62.
deadband(r) == IF abs(r) < deadband_width THEN 0 ELSE r

\* Variant of update_return: 0 instead of None without a set point.
update_return_zero(state) ==
    IF set_point = None THEN Some(0) ELSE Some(deadband(res(state)))

\* What PID.update(state) returns: None without a set point.
update_return(state) ==
    IF set_point = None THEN None ELSE Some(deadband(res(state)))

\* PID.update(state): the state it leaves behind.
update(state) ==
    IF set_point = None
    THEN UNCHANGED <<last_error, integrator>>
    ELSE /\ last_error' = error(state)
         /\ integrator' = new_integrator(state)

\* ------------------------------------------------------------------------
\* The PID node's callbacks
\* ------------------------------------------------------------------------

\* pub.publish(msg).
publish(msg) == pub' = Append(pub, msg)

\* Variant of state_callback: "if not cmd" in place of "if cmd is None", so
\* that a 0 is not published either.
state_callback_falsy(data) ==
    /\ item' = [topic |-> "state", data |-> data]
    /\ update(data)
    /\ cmd' = update_return(data)
    /\ IF update_return(data) = None \/ update_return(data) = Some(0)
       THEN UNCHANGED pub
       ELSE publish(update_return(data)[1])
    /\ UNCHANGED <<pidConfig, set_point>>

\* state_callback(item): cmd = pid.update(item.data); publish unless None.
state_callback(data) ==
    /\ item' = [topic |-> "state", data |-> data]
    /\ update(data)
    /\ cmd' = update_return(data)
    /\ IF update_return(data) = None
       THEN UNCHANGED pub
       ELSE publish(update_return(data)[1])
    /\ UNCHANGED <<pidConfig, set_point>>

\* Variant of set_point_callback: a new set point resets the running state.
set_point_callback_reset(data) ==
    /\ item' = [topic |-> "desired", data |-> data]
    /\ set_point' = Some(data)
    /\ last_error' = 0
    /\ integrator' = 0
    /\ UNCHANGED <<pidConfig, cmd, pub>>

\* set_point_callback(item): pid.set_point = item.data.
set_point_callback(data) ==
    /\ item' = [topic |-> "desired", data |-> data]
    /\ set_point' = Some(data)
    /\ UNCHANGED <<pidConfig, last_error, integrator, cmd, pub>>

\* ------------------------------------------------------------------------
\* PID.update line by line, as the state topic's thread runs it while the
\* desired topic's thread may assign self.set_point between any two lines
\* ------------------------------------------------------------------------

\* The thread is in no call.
no_frame == [pc |-> "idle", state |-> 0, error |-> 0, p_value |-> 0, d_value |-> 0]

\* state_callback(item), line 100: pid.update(item.data) is entered.
update_enter(data) ==
    /\ frame.pc = "idle"
    /\ item' = [topic |-> "state", data |-> data]
    /\ frame' = [no_frame EXCEPT !.pc = "44", !.state = data]
    /\ call' = [state |-> data, set_point |-> set_point, last_error |-> last_error,
                integrator |-> integrator, checked |-> None,
                set_points |-> {set_point}]
    /\ UNCHANGED <<pidConfig, pidState, cmd, pub>>

\* Lines 44-45: without a set point update returns None, and state_callback
\* returns at lines 101-102 without publishing.
update_line44 ==
    /\ frame.pc = "44"
    /\ call' = [call EXCEPT !.checked = set_point]
    /\ IF set_point = None
       THEN frame' = no_frame /\ cmd' = None
       ELSE frame' = [frame EXCEPT !.pc = "47"] /\ UNCHANGED cmd
    /\ UNCHANGED <<pidConfig, pidState, item, pub>>

\* Line 47: self.set_point is read a second time; None - state would raise
\* TypeError and end the callback.
update_line47 ==
    /\ frame.pc = "47"
    /\ frame' = IF set_point = None
                THEN [frame EXCEPT !.pc = "TypeError"]
                ELSE [frame EXCEPT !.pc = "49", !.error = set_point[1] - frame.state]
    /\ UNCHANGED <<pidConfig, pidState, pidNode, call>>

\* Variant of update_line49_50: p_value is computed from self.set_point read
\* again instead of the local error.
update_line49_50_rereads_set_point ==
    /\ frame.pc = "49"
    /\ frame' = [frame EXCEPT !.pc = "51",
                              !.p_value = Kp * (set_point[1] - frame.state),
                              !.d_value = Kd * (frame.error - last_error)]
    /\ UNCHANGED <<pidConfig, pidState, pidNode, call>>

\* Lines 49-50: p_value and d_value, from the local error.
update_line49_50 ==
    /\ frame.pc = "49"
    /\ frame' = [frame EXCEPT !.pc = "51",
                              !.p_value = Kp * frame.error,
                              !.d_value = Kd * (frame.error - last_error)]
    /\ UNCHANGED <<pidConfig, pidState, pidNode, call>>

\* Line 51.
update_line51 ==
    /\ frame.pc = "51"
    /\ last_error' = frame.error
    /\ frame' = [frame EXCEPT !.pc = "52"]
    /\ UNCHANGED <<pidConfig, set_point, integrator, pidNode, call>>

\* Line 52.
update_line52 ==
    /\ frame.pc = "52"
    /\ integrator' = integrator + frame.error
    /\ frame' = [frame EXCEPT !.pc = "53"]
    /\ UNCHANGED <<pidConfig, set_point, last_error, pidNode, call>>

\* Line 53.
update_line53 ==
    /\ frame.pc = "53"
    /\ integrator' = max(-windup_limit, min(windup_limit, integrator))
    /\ frame' = [frame EXCEPT !.pc = "54"]
    /\ UNCHANGED <<pidConfig, set_point, last_error, pidNode, call>>

\* Lines 54-62, and lines 101-103 of state_callback: the value returned is
\* not None and is published.
update_line54_62 ==
    /\ frame.pc = "54"
    /\ LET i_val == Ki * integrator
           r == min(upper_limit, max(lower_limit, frame.p_value + i_val + frame.d_value))
       IN /\ cmd' = Some(deadband(r))
          /\ publish(deadband(r))
    /\ frame' = no_frame
    /\ UNCHANGED <<pidConfig, pidState, item, call>>

\* ------------------------------------------------------------------------
\* class ImagePersistence
\* ------------------------------------------------------------------------

\* Variant of image_format_mapping: "bgr8" is mapped as well.
image_format_mapping_bgr8 ==
    [e \in {"rgb8", "rgba8", "bgr8"} |-> IF e = "rgba8" THEN "RGBA" ELSE "RGB"]

\* ImagePersistence.image_format_mapping.
image_format_mapping == [e \in {"rgb8", "rgba8"} |-> IF e = "rgb8" THEN "RGB" ELSE "RGBA"]

\* ImagePersistence.__init__.
ImagePersistence_init ==
    /\ min_update_interval \in MinUpdateIntervals
    /\ last_update = 0

\* Variant of rate_limit_passed: a frame exactly min_update_interval after
\* the last one is held back too.
rate_limit_passed_late(t) == ~((t - last_update) <= min_update_interval)

\* Variant of rate_limit_passed: the interval is taken one second short.
rate_limit_passed_early(t) == ~((t - last_update) < min_update_interval - 1)

\* The rate limit of on_image: TRUE when the frame is let through.
rate_limit_passed(t) == ~((t - last_update) < min_update_interval)

\* The EnvironmentalDataPoint of lines 56-62 as db.save stores it: a new
\* document at revision 1 without attachment.
point(ts) ==
    [is_desired |-> FALSE, value |-> None, timestamp |-> ts, rev |-> 1, image |-> None]

\* requests.put to <db_url>/<point_id>/image?rev=<rev> answered 201: the
\* attachment is stored with the revision the request named and the document
\* moves to its next revision.
put_image(docs, id, rev) ==
    [docs EXCEPT ![id] = [@ EXCEPT !.image = Some(rev), !.rev = rev + 1]]

\* Variant of image_url: the revision is left out of the url.
image_url_no_rev(point_id, point_rev) == [id |-> point_id, rev |-> 0]

\* The document and revision the url of lines 64-66 names.
image_url(point_id, point_rev) == [id |-> point_id, rev |-> point_rev]

\* The request db.save(point) and the request requests.put(url, ...), as the
\* database receives them.
save_request(doc, ok) == [op |-> "save", doc |-> doc, ok |-> ok]

put_request(url, ok) == [op |-> "put", url |-> url, ok |-> ok]

\* Variant of after_failed_put: the document is deleted again.
after_failed_put_delete(docs, point_id) == SubSeq(docs, 1, point_id - 1)

\* The database after the put has failed (lines 73-77): the exception leaves
\* on_image and the document saved before stays as it is.
after_failed_put(docs, point_id) == docs

\* Variant of on_image: last_update is set once the image has been posted.
on_image_update_when_posted(t, enc) ==
    /\ nframes' = nframes + 1
    /\ curr_time' = t
    /\ encoding' = enc
    /\ UNCHANGED imgConfig
    /\ IF ~rate_limit_passed(t)
       THEN /\ ended' = "dropped"
            /\ clock' = t
            /\ requests' = << >>
            /\ UNCHANGED <<last_update, db, persisted_at>>
       ELSE IF enc \notin DOMAIN image_format_mapping
            THEN /\ ended' = "ValueError"
                 /\ clock' = t
                 /\ requests' = << >>
                 /\ UNCHANGED <<last_update, db, persisted_at>>
            ELSE \E ts \in {t, min(MaxTime, t + 1)} :
                 /\ clock' = ts
                 /\ \/ /\ ended' = "save raised"
                       /\ requests' = <<save_request(point(ts), FALSE)>>
                       /\ UNCHANGED <<last_update, db, persisted_at>>
                    \/ LET point_id == Len(db) + 1
                           point_rev == 1
                           saved == Append(db, point(ts))
                           url == image_url(point_id, point_rev)
                       IN /\ persisted_at' = Append(persisted_at, t)
                          /\ \/ /\ ended' \in {"put raised", "RuntimeError"}
                                /\ requests' = <<save_request(point(ts), TRUE),
                                                 put_request(url, FALSE)>>
                                /\ db' = after_failed_put(saved, point_id)
                                /\ UNCHANGED last_update
                             \/ /\ url.rev = saved[url.id].rev
                                /\ ended' = "posted"
                                /\ requests' = <<save_request(point(ts), TRUE),
                                                 put_request(url, TRUE)>>
                                /\ db' = put_image(saved, url.id, url.rev)
                                /\ last_update' = t

\* on_image(item) for a frame read at time t with encoding enc.  The frame is
\* dropped inside the rate limit; otherwise last_update moves to t and the
\* call ends with ValueError (unsupported encoding), with db.save raising,
\* with requests.put raising, with RuntimeError (a status other than 201), or
\* with the image posted.  ts is the second reading of time.time().  The
\* database answers 201 only to a put that names the document's revision.
on_image(t, enc) ==
    /\ nframes' = nframes + 1
    /\ curr_time' = t
    /\ encoding' = enc
    /\ UNCHANGED imgConfig
    /\ IF ~rate_limit_passed(t)
       THEN /\ ended' = "dropped"
            /\ clock' = t
            /\ requests' = << >>
            /\ UNCHANGED <<last_update, db, persisted_at>>
       ELSE /\ last_update' = t
            /\ IF enc \notin DOMAIN image_format_mapping
               THEN /\ ended' = "ValueError"
                    /\ clock' = t
                    /\ requests' = << >>
                    /\ UNCHANGED <<db, persisted_at>>
               ELSE \E ts \in {t, min(MaxTime, t + 1)} :
                    /\ clock' = ts
                    /\ \/ /\ ended' = "save raised"
                          /\ requests' = <<save_request(point(ts), FALSE)>>
                          /\ UNCHANGED <<db, persisted_at>>
                       \/ LET point_id == Len(db) + 1
                              point_rev == 1
                              saved == Append(db, point(ts))
                              url == image_url(point_id, point_rev)
                          IN /\ persisted_at' = Append(persisted_at, t)
                             /\ \/ /\ ended' \in {"put raised", "RuntimeError"}
                                   /\ requests' = <<save_request(point(ts), TRUE),
                                                    put_request(url, FALSE)>>
                                   /\ db' = after_failed_put(saved, point_id)
                                \/ /\ url.rev = saved[url.id].rev
                                   /\ ended' = "posted"
                                   /\ requests' = <<save_request(point(ts), TRUE),
                                                    put_request(url, TRUE)>>
                                   /\ db' = put_image(saved, url.id, url.rev)

\* ------------------------------------------------------------------------
\* class Persistence (the scalar sink)
\* ------------------------------------------------------------------------

\* Whether Persistence.py can be imported.  In both handlers the keyword
\* arguments variable=item.data_type and is_desired=... are not followed by
\* a comma (lines 17-18 and 27-28), so the file is not Python: the import
\* raises SyntaxError, no Persistence object exists and no handler ever runs.
Persistence_imported == FALSE

\* EnvironmentalDataPointModel(...) as the handlers are written to build it.
EnvironmentalDataPointModel(is_desired, it) ==
    [is_desired |-> is_desired, value |-> it.value, timestamp |-> it.timestamp]

\* point.store(self.db): the document is added, unless the store raises.
point_store(doc, store_ok) ==
    IF store_ok THEN scalar_db' = Append(scalar_db, doc) ELSE UNCHANGED scalar_db

\* on_desired_data(item) and on_measured_data(item) as written.
on_desired_data(it, store_ok) ==
    point_store(EnvironmentalDataPointModel(TRUE, it), store_ok)

on_measured_data(it, store_ok) ==
    point_store(EnvironmentalDataPointModel(FALSE, it), store_ok)

\* An event sent to input kind ("desired" or "measured") while the store
\* would accept a write (store_ok) or not: the handler runs if there is a
\* Persistence object to run it, and the event is logged with its outcome.
scalar_event(kind, it, store_ok) ==
    /\ IF Persistence_imported
       THEN IF kind = "desired"
            THEN on_desired_data(it, store_ok)
            ELSE on_measured_data(it, store_ok)
       ELSE UNCHANGED scalar_db
    /\ scalar_in' = Append(scalar_in,
          [kind |-> kind, value |-> it.value, timestamp |-> it.timestamp,
           store_ok |-> store_ok,
           outcome |-> IF ~Persistence_imported THEN "not handled"
                       ELSE IF store_ok THEN "stored" ELSE "store raised"])

\* ------------------------------------------------------------------------
\* Initial states
\* ------------------------------------------------------------------------

PIDNode_init ==
    /\ PID_init
    /\ item = [topic |-> "none", data |-> 0]
    /\ cmd = None
    /\ pub = << >>
    /\ driving = None
    /\ frame = no_frame
    /\ call = [state |-> 0, set_point |-> None, last_error |-> 0, integrator |-> 0,
               checked |-> None, set_points |-> {}]

ImageSink_init ==
    /\ ImagePersistence_init
    /\ clock = 0
    /\ db = << >>
    /\ nframes = 0
    /\ curr_time = 0
    /\ ended = "none"
    /\ encoding = "none"
    /\ requests = << >>
    /\ persisted_at = << >>

\* The image sink as the PID node's specifications hold it: constructed, and
\* never sent a frame.
ImageSink_idle ==
    /\ ImageSink_init
    /\ min_update_interval = 0

\* The scalar sink before any event.
ScalarSink_init ==
    /\ scalar_in = << >>
    /\ scalar_db = << >>

\* The PID node as the image sink's specification holds it: constructed with
\* the default gains and limits, and never sent a message.
PIDNode_idle ==
    /\ PIDNode_init
    /\ Kp = 0 /\ Ki = 0 /\ Kd = 0
    /\ lower_limit = -1 /\ upper_limit = 1
    /\ windup_limit = 0 /\ deadband_width = 0

\* ------------------------------------------------------------------------
\* Spec: the PID node, any order of desired and state messages
\* ------------------------------------------------------------------------

Init == PIDNode_init /\ ImageSink_idle /\ ScalarSink_init

StateMsg ==
    /\ Len(pub) < MaxPublished
    /\ \E m \in Measurements : state_callback(m)
    /\ UNCHANGED <<driving, thrVars, imgVars, scalarVars>>

DesiredMsg ==
    /\ \E v \in SetPoints : set_point_callback(v)
    /\ UNCHANGED <<driving, thrVars, imgVars, scalarVars>>

Next == StateMsg \/ DesiredMsg

Spec == Init /\ [][Next]_vars

\* ------------------------------------------------------------------------
\* SpecDrive: PID.update called directly; after any calls of set_desired and
\* update, one measurement is fixed and update is called with it forever
\* ------------------------------------------------------------------------

\* One call pid.update(state) outside the node: nothing is published.
CallUpdate(state) ==
    /\ update(state)
    /\ cmd' = update_return(state)
    /\ UNCHANGED <<pidConfig, set_point, item, pub>>

\* pid.set_point = value.
CallSetDesired(value) ==
    /\ set_point' = Some(value)
    /\ UNCHANGED <<pidConfig, last_error, integrator, item, cmd, pub>>

DriveSetDesired ==
    /\ driving = None
    /\ \E v \in SetPoints : CallSetDesired(v)
    /\ UNCHANGED <<driving, thrVars, imgVars, scalarVars>>

DriveUpdate ==
    /\ driving = None
    /\ \E m \in Measurements : CallUpdate(m)
    /\ UNCHANGED <<driving, thrVars, imgVars, scalarVars>>

\* From here on the set point stays and every update gets measurement m.
StartDrive ==
    /\ driving = None
    /\ set_point # None
    /\ \E m \in Measurements : driving' = Some(m)
    /\ UNCHANGED <<pidConfig, pidState, pidNode, thrVars, imgVars, scalarVars>>

RepeatUpdate ==
    /\ driving # None
    /\ CallUpdate(driving[1])
    /\ UNCHANGED <<driving, thrVars, imgVars, scalarVars>>

NextDrive == DriveSetDesired \/ DriveUpdate \/ StartDrive \/ RepeatUpdate

\* The update calls of the drive keep coming.
SpecDrive == Init /\ [][NextDrive]_vars /\ WF_vars(RepeatUpdate)

\* ------------------------------------------------------------------------
\* SpecImage: the image sink, frames arriving at non-decreasing times
\* ------------------------------------------------------------------------

InitImage == PIDNode_idle /\ ImageSink_init /\ ScalarSink_init

ImageMsg ==
    /\ nframes < MaxFrames
    /\ \E t \in clock..MaxTime, enc \in Encodings : on_image(t, enc)
    /\ UNCHANGED <<pidVars, scalarVars>>

NextImage == ImageMsg

SpecImage == InitImage /\ [][NextImage]_vars

\* ------------------------------------------------------------------------
\* SpecThreads: the PID node with one thread per subscription, the desired
\* topic's callback running between any two lines of PID.update
\* ------------------------------------------------------------------------

InitThreads == PIDNode_init /\ ImageSink_idle /\ ScalarSink_init

\* The desired topic's thread runs set_point_callback: one attribute store.
ThreadDesired ==
    /\ \E v \in SetPoints :
          /\ set_point_callback(v)
          /\ call' = IF frame.pc = "idle"
                     THEN call
                     ELSE [call EXCEPT !.set_points = @ \cup {Some(v)}]
    /\ UNCHANGED <<frame, driving, imgVars, scalarVars>>

ThreadStateEnter ==
    /\ Len(pub) < MaxThreadPublished
    /\ \E m \in Measurements : update_enter(m)
    /\ UNCHANGED <<driving, imgVars, scalarVars>>

ThreadState44 == update_line44 /\ UNCHANGED <<driving, imgVars, scalarVars>>

ThreadState47 == update_line47 /\ UNCHANGED <<driving, imgVars, scalarVars>>

ThreadState49 == update_line49_50 /\ UNCHANGED <<driving, imgVars, scalarVars>>

ThreadState51 == update_line51 /\ UNCHANGED <<driving, imgVars, scalarVars>>

ThreadState52 == update_line52 /\ UNCHANGED <<driving, imgVars, scalarVars>>

ThreadState53 == update_line53 /\ UNCHANGED <<driving, imgVars, scalarVars>>

ThreadState54 == update_line54_62 /\ UNCHANGED <<driving, imgVars, scalarVars>>

NextThreads ==
    \/ ThreadDesired
    \/ ThreadStateEnter
    \/ ThreadState44
    \/ ThreadState47
    \/ ThreadState49
    \/ ThreadState51
    \/ ThreadState52
    \/ ThreadState53
    \/ ThreadState54

SpecThreads == InitThreads /\ [][NextThreads]_vars

\* ------------------------------------------------------------------------
\* SpecScalar: the scalar sink, any order of desired and measured events
\* ------------------------------------------------------------------------

InitScalar == PIDNode_idle /\ ImageSink_idle /\ ScalarSink_init

ScalarItems == [value : ScalarValues, timestamp : ScalarTimestamps]

DesiredData ==
    /\ Len(scalar_in) < MaxEvents
    /\ \E it \in ScalarItems, store_ok \in BOOLEAN : scalar_event("desired", it, store_ok)
    /\ UNCHANGED <<pidVars, imgVars>>

MeasuredData ==
    /\ Len(scalar_in) < MaxEvents
    /\ \E it \in ScalarItems, store_ok \in BOOLEAN : scalar_event("measured", it, store_ok)
    /\ UNCHANGED <<pidVars, imgVars>>

NextScalar == DesiredData \/ MeasuredData

SpecScalar == InitScalar /\ [][NextScalar]_vars

\* ------------------------------------------------------------------------
\* Properties of the PID node
\* ------------------------------------------------------------------------

\* The configuration constraints of the controller's contract.
ValidConfig ==
    /\ lower_limit <= upper_limit
    /\ windup_limit >= 0
    /\ deadband_width >= 0

\* clamp as the contract writes it.
Clamp(x, lo, hi) == IF x < lo THEN lo ELSE IF x > hi THEN hi ELSE x

\* A step that is one state message (one update call); item' is its message.
IsStateStep == item'.topic = "state"

\* A step that is one desired message (one set_desired).
IsDesiredStep == item'.topic = "desired"

\* C1: as long as no set point has been received, every update returns None
\* (not 0, not any number) and nothing has been published on cmd.
C1_NoOutputBeforeSetPoint ==
    set_point = None => cmd = None /\ pub = << >>

\* C1 witness: an update has run before any set_desired.
C1_Witness == set_point = None /\ item.topic = "state"

\* C2 as claimed: in a valid configuration every value update returns,
\* the deadband result included, lies in [lower_limit, upper_limit].
C2_Original ==
    (cmd # None /\ ValidConfig) =>
        (lower_limit <= cmd[1] /\ cmd[1] <= upper_limit)

\* C2 amended: in a valid configuration every value update returns lies in
\* [lower_limit, upper_limit] or is the 0 of the deadband, which is returned
\* whether or not 0 lies within the limits; and every value published is one
\* of these.
C2_OutputInLimitsOrDeadbandZero ==
    ValidConfig =>
        /\ cmd # None =>
              \/ lower_limit <= cmd[1] /\ cmd[1] <= upper_limit
              \/ cmd[1] = 0 /\ deadband_width > 0
        /\ \A k \in 1..Len(pub) :
              \/ lower_limit <= pub[k] /\ pub[k] <= upper_limit
              \/ pub[k] = 0 /\ deadband_width > 0

\* C2 witness: the deadband returned 0 although 0 is outside the limits.
C2_Witness ==
    /\ ValidConfig
    /\ item.topic = "state"
    /\ cmd = Some(0)
    /\ lower_limit > 0

\* C3: in a valid configuration, an update with a set point leaves
\* last_error = e and integrator = I' = clamp(integrator + e, -windup_limit,
\* windup_limit) and returns clamp(Kp*e + Ki*I' + Kd*(e - last_error),
\* lower_limit, upper_limit), up to the deadband, which turns that value
\* into 0 only when its absolute value is below deadband_width.
C3_UpdateStep ==
    [][(IsStateStep /\ set_point # None /\ ValidConfig) =>
          LET e == set_point[1] - item'.data
              I == Clamp(integrator + e, -windup_limit, windup_limit)
              out == Clamp(Kp * e + Ki * I + Kd * (e - last_error),
                           lower_limit, upper_limit)
          IN /\ last_error' = e
             /\ integrator' = I
             /\ \/ cmd' = Some(out)
                \/ cmd' = Some(0) /\ abs(out) < deadband_width
             /\ deadband_width = 0 => cmd' = Some(out)
    ]_vars

\* C3 witness: the scenario Kp=1, Ki=Kd=0, limits [-1,1], set_desired(5),
\* update(3): the error is 2 and 1 is returned.
C3_Witness ==
    /\ Kp = 1 /\ Ki = 0 /\ Kd = 0
    /\ lower_limit = -1 /\ upper_limit = 1
    /\ windup_limit >= 0 /\ deadband_width = 0
    /\ set_point = Some(5)
    /\ item = [topic |-> "state", data |-> 3]
    /\ last_error = 2
    /\ cmd = Some(1)

\* C4: with a set point, update returns exactly 0 (a number, not None) when
\* the clamped output is below deadband_width in absolute value, and the
\* clamped output unchanged otherwise.
C4_Deadband ==
    [][(IsStateStep /\ set_point # None) =>
          LET r == res(item'.data)
          IN /\ cmd' # None
             /\ abs(r) < deadband_width => cmd' = Some(0)
             /\ abs(r) >= deadband_width => cmd' = Some(r)
    ]_vars

\* C4 witness: Kp=1 alone with error 2 gives the clamped output 1, which a
\* deadband of width 2 turns into 0.
C4_Witness ==
    /\ Kp = 1 /\ Ki = 0 /\ Kd = 0
    /\ lower_limit = -1 /\ upper_limit = 1
    /\ deadband_width = 2
    /\ item.topic = "state"
    /\ set_point # None
    /\ last_error = 2
    /\ cmd = Some(0)

\* C5: a state message that arrives while a set point exists appends exactly
\* one message to cmd, the value update returned (the 0 of the deadband
\* too); a desired message, and a state message whose update returns None,
\* publish nothing.
C5_OnePublishPerOutput ==
    [][/\ (IsStateStep /\ set_point # None) =>
              cmd' # None /\ pub' = Append(pub, cmd'[1])
       /\ (IsStateStep /\ cmd' = None) => pub' = pub
       /\ IsDesiredStep => pub' = pub
    ]_vars

\* C5 witness: the 0 of the deadband has just been published.
C5_Witness ==
    /\ item.topic = "state"
    /\ cmd = Some(0)
    /\ deadband_width = 2
    /\ last_error # 0
    /\ pub # << >>
    /\ pub[Len(pub)] = 0

\* C6: with windup_limit >= 0 the integrator stays within
\* [-windup_limit, windup_limit].
C6_IntegratorBounded ==
    windup_limit >= 0 =>
        (-windup_limit <= integrator /\ integrator <= windup_limit)

\* C6 witness: two updates with error 2 under windup_limit 3: the sum 4 was
\* clamped to 3.
\* (Kd = 1 alone with limits [-1,1]: the second output 0 shows that the error
\* before was 2 as well.)
C6_Witness ==
    /\ Kp = 0 /\ Ki = 0 /\ Kd = 1
    /\ lower_limit = -1 /\ upper_limit = 1 /\ deadband_width = 0
    /\ windup_limit = 3
    /\ Len(pub) = 2
    /\ last_error = 2
    /\ cmd = Some(0)
    /\ integrator = 3

\* The constant error of the drive.
DriveError == set_point[1] - driving[1]

\* C7: update called again and again with one constant nonzero error brings
\* the integrator to windup_limit (positive error) or -windup_limit (negative
\* error), for windup_limit >= 0, and it stays there under every further
\* such update; for any windup_limit it settles on one of the two values.
C7_IntegratorSaturates ==
    /\ [](( /\ driving # None
            /\ windup_limit >= 0
            /\ DriveError > 0 ) => <>[](integrator = windup_limit))
    /\ [](( /\ driving # None
            /\ windup_limit >= 0
            /\ DriveError < 0 ) => <>[](integrator = -windup_limit))
    /\ [](( /\ driving # None
            /\ DriveError # 0 ) =>
              <>[](integrator = windup_limit \/ integrator = -windup_limit))

\* C7 witness: under a drive with error 2 an update has left the integrator
\* at windup_limit = 3.
C7_Witness ==
    /\ driving # None
    /\ DriveError = 2
    /\ windup_limit = 3
    /\ integrator = 3
    /\ last_error = 2

\* C8: a desired message only records the set point: nothing is published,
\* last_error and integrator stay as they are, and the recorded value is the
\* one the next update takes its error from.
C8_SetDesiredFrame ==
    [][/\ IsDesiredStep =>
              /\ set_point' = Some(item'.data)
              /\ pub' = pub
              /\ cmd' = cmd
              /\ last_error' = last_error
              /\ integrator' = integrator
       /\ IsStateStep =>
              /\ set_point' = set_point
              /\ set_point # None => last_error' = set_point[1] - item'.data
    ]_vars

\* C8 witness: a set point has been recorded after updates left a nonzero
\* error and integrator behind.
C8_Witness ==
    /\ item.topic = "desired"
    /\ set_point = Some(item.data)
    /\ last_error # 0
    /\ integrator # 0
    /\ pub # << >>

\* The last step was update(sp) for the current set point sp, with all three
\* gains 0, in a valid configuration.
ZeroGainUpdateAtSetPoint ==
    /\ ValidConfig
    /\ Kp = 0 /\ Ki = 0 /\ Kd = 0
    /\ item.topic = "state"
    /\ set_point = Some(item.data)

\* C9 as claimed: with Kp=Ki=Kd=0, in every valid configuration, update(sp)
\* after set_desired(sp) has error 0 and returns exactly 0.
C9_Original ==
    ZeroGainUpdateAtSetPoint => last_error = 0 /\ cmd = Some(0)

\* C9 amended: with Kp=Ki=Kd=0, in every valid configuration, update(sp)
\* after set_desired(sp) has error 0 and returns 0 clamped into
\* [lower_limit, upper_limit], with the deadband applied to it: exactly 0
\* when lower_limit <= 0 <= upper_limit, and otherwise the limit nearest to
\* 0 unless the deadband turns it into 0.
C9_ZeroGainAtSetPoint ==
    ZeroGainUpdateAtSetPoint =>
        LET out == Clamp(0, lower_limit, upper_limit)
        IN /\ last_error = 0
           /\ cmd = Some(IF abs(out) < deadband_width THEN 0 ELSE out)
           /\ (lower_limit <= 0 /\ 0 <= upper_limit) => cmd = Some(0)

\* C9 witness: limits [1,2] and no deadband: update(sp) returned 1.
C9_Witness ==
    /\ ZeroGainUpdateAtSetPoint
    /\ lower_limit = 1 /\ upper_limit = 2
    /\ deadband_width = 0
    /\ cmd = Some(1)

\* ------------------------------------------------------------------------
\* Properties of the image sink
\* ------------------------------------------------------------------------

\* A step that is one on_image call; curr_time' is the frame's arrival time.
IsImageStep == nframes' = nframes + 1

\* C10: a frame arriving at time now passes the rate limit, and last_update
\* becomes now, exactly when now - last_update >= min_update_interval;
\* otherwise the call returns without an exception, the database is as it
\* was and so is last_update.
C10_RateGate ==
    [][IsImageStep =>
          LET now == curr_time'
              eligible == now - last_update >= min_update_interval
          IN /\ eligible <=> ended' # "dropped"
             /\ eligible => last_update' = now
             /\ ~eligible =>
                   /\ ended' = "dropped"
                   /\ db' = db
                   /\ last_update' = last_update
    ]_vars

\* C10 witness: with an interval of 3, a frame was let through at time 3 and
\* the frame at time 5 (one short of the interval) has been dropped.
C10_Witness ==
    /\ min_update_interval = 3
    /\ last_update = 3
    /\ Len(db) = 1
    /\ curr_time = 5
    /\ ended = "dropped"

\* The encodings the contract supports.
SupportedEncodings == {"rgb8", "rgba8"}

\* How an on_image call ends when a write to the database has failed.
FailedPut == {"put raised", "RuntimeError"}

\* C11 as claimed: the rate gate starts open, so the first frame a sink
\* receives passes the rate limit whatever its arrival time and whatever
\* min_update_interval is (the frame at t = 0 of the scenario with interval
\* 10 included).
C11_GateStartsOpen ==
    nframes = 1 => ended # "dropped"

\* C12: every frame that passed the rate limit with a supported encoding has
\* led to a save of a document with value None and is_desired False as the
\* first request; a put of the image is only ever the second request, after
\* a save that succeeded, and names the id of the document that save created
\* and the revision it returned; a put that succeeded has attached the image
\* to that document at that revision.
C12_RecordThenAttachment ==
    /\ ended \notin {"none", "dropped", "ValueError"} =>
          /\ Len(requests) >= 1
          /\ requests[1].op = "save"
          /\ requests[1].doc.value = << >>
          /\ requests[1].doc.is_desired = FALSE
    /\ \A k \in 1..Len(requests) :
          requests[k].op = "put" =>
              /\ k = 2
              /\ requests[1].op = "save"
              /\ requests[1].ok
              /\ Len(db) >= 1
              /\ requests[k].url.id = Len(db)
              /\ requests[k].url.rev = requests[1].doc.rev
              /\ db[Len(db)].value = << >>
              /\ db[Len(db)].is_desired = FALSE
              /\ db[Len(db)].timestamp = requests[1].doc.timestamp
              /\ requests[k].ok => db[Len(db)].image = <<requests[1].doc.rev>>
    /\ ended = "posted" => Len(requests) = 2 /\ requests[2].op = "put"

\* C12 witness: an image has been posted to the document created just before.
C12_Witness ==
    /\ ended = "posted"
    /\ Len(requests) = 2
    /\ requests[2].url = [id |-> Len(db), rev |-> 1]
    /\ db[Len(db)].image = <<1>>

\* C13: when the put of the image fails after the save succeeded, the call
\* ends with an exception of its own kind, the document saved stays in the
\* database without image (one save and one put were sent: no delete, no
\* second put), no later call removes or changes a document, and the sink
\* takes the next frame.
C13_OrphanLeft ==
    /\ [][IsImageStep =>
             /\ \A i \in 1..Len(db) : Len(db') >= i /\ db'[i] = db[i]
             /\ ended' \in FailedPut =>
                   /\ Len(db') = Len(db) + 1
                   /\ db'[Len(db')].image = << >>
                   /\ Len(requests') = 2
                   /\ requests'[1].op = "save" /\ requests'[1].ok
                   /\ requests'[2].op = "put" /\ ~requests'[2].ok
       ]_vars
    /\ []((ended \in FailedPut /\ nframes < MaxFrames) => ENABLED ImageMsg)

\* C13 witness: the first document is without image, and a later frame has
\* been posted.
C13_Witness ==
    /\ Len(db) = 2
    /\ db[1].image = << >>
    /\ db[2].image # << >>
    /\ ended = "posted"

\* C14 as claimed: after a frame with an unsupported encoding, a following
\* frame with a supported encoding is processed and persisted, that is, not
\* dropped.  (Whenever the unsupported frame passed the rate limit, the
\* following one would have passed it in its place.)
C14_Original ==
    [][(IsImageStep /\ ended = "ValueError" /\ encoding' \in SupportedEncodings) =>
          ended' # "dropped"
    ]_vars

\* C14 amended: a frame with an unsupported encoding that passes the rate
\* limit ends with ValueError, nothing is sent to the database, and the sink
\* takes the next frame; the rejected frame has moved last_update, so a
\* following frame with a supported encoding is saved (unless the save itself
\* fails) when it arrives at least min_update_interval after the rejected
\* one, and is dropped by the rate limit when it arrives earlier.
C14_UnsupportedEncoding ==
    /\ [][IsImageStep =>
             /\ ( /\ curr_time' - last_update >= min_update_interval
                  /\ encoding' \notin SupportedEncodings ) =>
                   /\ ended' = "ValueError"
                   /\ db' = db
                   /\ requests' = << >>
             /\ (ended = "ValueError" /\ encoding' \in SupportedEncodings) =>
                   /\ curr_time' - curr_time >= min_update_interval =>
                         /\ Len(requests') >= 1
                         /\ requests'[1].op = "save"
                         /\ ended' = "save raised" \/ Len(db') = Len(db) + 1
                   /\ curr_time' - curr_time < min_update_interval =>
                         /\ ended' = "dropped"
                         /\ db' = db
       ]_vars
    /\ []((ended = "ValueError" /\ nframes < MaxFrames) => ENABLED ImageMsg)

\* C14 witness: a frame with encoding "bgr8" has been rejected after a
\* document had been saved for an earlier frame.
C14_Witness ==
    /\ ended = "ValueError"
    /\ encoding = "bgr8"
    /\ nframes = 2
    /\ Len(db) = 1
    /\ requests = << >>
    /\ last_update = curr_time

\* C18: any two frames that each created a document arrived at least
\* min_update_interval apart.
C18_PersistedFramesSpaced ==
    /\ Len(persisted_at) = Len(db)
    /\ \A i, j \in 1..Len(persisted_at) :
          i < j => persisted_at[j] - persisted_at[i] >= min_update_interval

\* C18 witness: with an interval of 3, two of three frames created a
\* document, exactly 3 apart.
C18_Witness ==
    /\ min_update_interval = 3
    /\ nframes = 3
    /\ Len(db) = 2
    /\ persisted_at[2] - persisted_at[1] = 3

\* C19: last_update is 0 until a frame passes the rate limit, and after each
\* on_image call it is the arrival time of the last frame that passed it,
\* also when that call then ended with ValueError or with a failed write; a
\* frame that arrives less than min_update_interval after such a call is
\* dropped.
C19_LastUpdate ==
    /\ [](nframes = 0 => last_update = 0)
    /\ [][IsImageStep =>
             /\ \/ ended' = "dropped" /\ last_update' = last_update
                \/ ended' # "dropped" /\ last_update' = curr_time'
             /\ ended' \in {"ValueError", "save raised"} \cup FailedPut =>
                   last_update' = curr_time'
             /\ ( /\ ended \in {"ValueError", "save raised"} \cup FailedPut
                  /\ curr_time' - curr_time < min_update_interval ) =>
                   ended' = "dropped"
       ]_vars

\* C19 witness: with an interval of 3 and no document saved, a frame passed
\* the rate limit (and failed); the frame 2 later has been dropped.
C19_Witness ==
    /\ min_update_interval = 3
    /\ db = << >>
    /\ last_update >= 3
    /\ curr_time = last_update + 2
    /\ ended = "dropped"

\* ------------------------------------------------------------------------
\* Properties of the PID node's configuration
\* ------------------------------------------------------------------------

\* C17 as claimed: a controller configured with lower_limit > upper_limit,
\* windup_limit < 0 or deadband_width < 0 is rejected at startup, so it never
\* gets to compute an output in update.
C17_InvalidConfigRejected ==
    ~ValidConfig => cmd = None

\* ------------------------------------------------------------------------
\* Properties of the scalar sink
\* ------------------------------------------------------------------------

\* C15 as claimed: every desired and every measured event sent to the sink
\* while the store accepts writes has been persisted, one document per
\* event and in order, with is_desired true for a desired event and false
\* for a measured one and the value of the event.
C15_EveryEventPersisted ==
    (\A i \in 1..Len(scalar_in) : scalar_in[i].store_ok) =>
        /\ Len(scalar_db) = Len(scalar_in)
        /\ \A i \in 1..Len(scalar_in) :
              /\ scalar_db[i].is_desired = (scalar_in[i].kind = "desired")
              /\ scalar_db[i].value = scalar_in[i].value

\* C16 as claimed: an event whose store write fails has its failure
\* reported and is dropped, and the sink goes on: the events after it are
\* persisted when their own write succeeds.
C16_FailureReportedSinkContinues ==
    \A i \in 1..Len(scalar_in) :
        /\ ~scalar_in[i].store_ok => scalar_in[i].outcome = "store raised"
        /\ (scalar_in[i].store_ok /\ \E k \in 1..(i - 1) : ~scalar_in[k].store_ok) =>
              scalar_in[i].outcome = "stored"

\* ------------------------------------------------------------------------
\* Properties of the PID node's two threads
\* ------------------------------------------------------------------------

\* What one uninterrupted update(st) returns and leaves behind when it
\* starts with set point sp, last_error le and integrator ig.
SequentialUpdate(sp, st, le, ig) ==
    IF sp = None
    THEN [cmd |-> None, last_error |-> le, integrator |-> ig]
    ELSE LET e == sp[1] - st
             I == max(-windup_limit, min(windup_limit, ig + e))
             r == min(upper_limit, max(lower_limit, Kp * e + Ki * I + Kd * (e - le)))
         IN [cmd |-> Some(IF abs(r) < deadband_width THEN 0 ELSE r),
             last_error |-> e, integrator |-> I]

\* The step on which an update call returns.
IsUpdateReturn == frame.pc # "idle" /\ frame'.pc = "idle"

\* C20: with set_point_callback running between any two lines of update,
\* (1) what an update call returns and the last_error and integrator it
\* leaves are those of one uninterrupted update started with a set point
\* that self.set_point held at some moment of the call; (2) past its check
\* of line 44 update never finds the set point missing at line 47; (3) the
\* two callbacks do not touch each other's state: a step that assigns the
\* set point leaves last_error, integrator, the returned value and the
\* published messages alone, and a step that changes one of these leaves
\* the set point alone.
C20_UpdateSequential ==
    /\ [][IsUpdateReturn =>
            \E sp \in call.set_points :
               [cmd |-> cmd', last_error |-> last_error', integrator |-> integrator']
                  = SequentialUpdate(sp, call.state, call.last_error, call.integrator)
       ]_vars
    /\ [](frame.pc # "TypeError" /\ (frame.pc = "47" => set_point # None))
    /\ [][/\ set_point' # set_point => UNCHANGED <<last_error, integrator, cmd, pub, frame>>
          /\ <<last_error, integrator, cmd, pub>>' # <<last_error, integrator, cmd, pub>>
                => set_point' = set_point
       ]_vars

\* C20 witness: an update call has returned a value; its check of line 44
\* saw set point 3, line 47 read 5 (the error it left is 5 - state), and the
\* set point is 3 again.
C20_Witness ==
    /\ frame.pc = "idle"
    /\ cmd # None
    /\ call.checked = Some(3)
    /\ last_error = 5 - call.state
    /\ set_point = Some(3)
    /\ call.set_points = {Some(3), Some(5)}

====
